---- MODULE Spec2Model ----
(***************************************************************************)
(* The agent scripts of agents-on-docker as one state machine.             *)
(*                                                                         *)
(* Four scripts ("variants") share one shape: resolve a model, optionally  *)
(* open the MCP gateway connection and discover its tools, construct the   *)
(* agent, invoke it once, print the response.                              *)
(*                                                                         *)
(*   "v7mcp"   src/examples/agent-with-mcp/agent-docker-v7/agent.py        *)
(*   "v7"      src/agent-docker-v7/agent.py                                *)
(*   "simple"  src/agent-docker-v7/simple_agent.py                         *)
(*   "v1"      src/examples/basic-agent/agent-docker-v1/agent.py           *)
(*                                                                         *)
(* A str of the save tools (word, definition, path, message) is the        *)
(* sequence of its code points, ord(c) for each character c; the content   *)
(* of a file and the name it is stored under are sequences of bytes.  Each *)
(* literal is followed or preceded by the text it spells.                  *)
(***************************************************************************)
EXTENDS Integers, Sequences, FiniteSets, TLC

VARIABLES
    variant,        \* which script runs
    OPENAI_API_KEY, \* os.getenv("OPENAI_API_KEY"): <<>> when unset, <<s>> when set to s
    pc,             \* position of main()
    model,          \* the OpenAIModel configuration, NoModel before it is resolved
    conn,           \* gateway connection: "none" | "open" | "closed"
    mcp_tools,      \* what list_tools_sync() returned
    agent,          \* the constructed Agent (its model and tool list), NoAgent before
    invocations,    \* number of agent(QUESTION) calls made
    discoveries,    \* number of list_tools_sync() calls made
    out,            \* lines printed to standard output, as tags
    exit_status,    \* process exit status, -1 while running
    error,          \* the step whose failure is propagating or was handled, "none" if none
    files,          \* filesystem: path -> content, for the regular files written
    dirs,           \* filesystem: the set of existing directories
    calls,          \* number of save-tool calls made, counted up to MaxCalls
    last            \* the most recent save-tool call and its outcome, NoCall before

vars == <<variant, OPENAI_API_KEY, pc, model, conn, mcp_tools, agent, invocations,
          discoveries, out, exit_status, error, files, dirs, calls, last>>

driverVars == <<OPENAI_API_KEY, pc, model, conn, mcp_tools, agent, invocations,
                discoveries, out, exit_status, error>>

(***************************************************************************)
(* Bounds                                                                  *)
(***************************************************************************)
MaxCalls == 2
MaxTools == 2

(***************************************************************************)
(* Characters.  The tables are those of the interpreter's unicodedata      *)
(* (Unicode 14.0.0), as ranges lo..hi of code points.                      *)
(***************************************************************************)
\* c.isalpha()
AlphaRanges ==
    {<<65, 90>>, <<97, 122>>, <<170, 170>>, <<181, 181>>, <<186, 186>>, <<192, 214>>,
     <<216, 246>>, <<248, 705>>, <<710, 721>>, <<736, 740>>, <<748, 748>>, <<750, 750>>,
     <<880, 884>>, <<886, 887>>, <<890, 893>>, <<895, 895>>, <<902, 902>>, <<904, 906>>,
     <<908, 908>>, <<910, 929>>, <<931, 1013>>, <<1015, 1153>>, <<1162, 1327>>, <<1329, 1366>>,
     <<1369, 1369>>, <<1376, 1416>>, <<1488, 1514>>, <<1519, 1522>>, <<1568, 1610>>,
     <<1646, 1647>>, <<1649, 1747>>, <<1749, 1749>>, <<1765, 1766>>, <<1774, 1775>>,
     <<1786, 1788>>, <<1791, 1791>>, <<1808, 1808>>, <<1810, 1839>>, <<1869, 1957>>,
     <<1969, 1969>>, <<1994, 2026>>, <<2036, 2037>>, <<2042, 2042>>, <<2048, 2069>>,
     <<2074, 2074>>, <<2084, 2084>>, <<2088, 2088>>, <<2112, 2136>>, <<2144, 2154>>,
     <<2160, 2183>>, <<2185, 2190>>, <<2208, 2249>>, <<2308, 2361>>, <<2365, 2365>>,
     <<2384, 2384>>, <<2392, 2401>>, <<2417, 2432>>, <<2437, 2444>>, <<2447, 2448>>,
     <<2451, 2472>>, <<2474, 2480>>, <<2482, 2482>>, <<2486, 2489>>, <<2493, 2493>>,
     <<2510, 2510>>, <<2524, 2525>>, <<2527, 2529>>, <<2544, 2545>>, <<2556, 2556>>,
     <<2565, 2570>>, <<2575, 2576>>, <<2579, 2600>>, <<2602, 2608>>, <<2610, 2611>>,
     <<2613, 2614>>, <<2616, 2617>>, <<2649, 2652>>, <<2654, 2654>>, <<2674, 2676>>,
     <<2693, 2701>>, <<2703, 2705>>, <<2707, 2728>>, <<2730, 2736>>, <<2738, 2739>>,
     <<2741, 2745>>, <<2749, 2749>>, <<2768, 2768>>, <<2784, 2785>>, <<2809, 2809>>,
     <<2821, 2828>>, <<2831, 2832>>, <<2835, 2856>>, <<2858, 2864>>, <<2866, 2867>>,
     <<2869, 2873>>, <<2877, 2877>>, <<2908, 2909>>, <<2911, 2913>>, <<2929, 2929>>,
     <<2947, 2947>>, <<2949, 2954>>, <<2958, 2960>>, <<2962, 2965>>, <<2969, 2970>>,
     <<2972, 2972>>, <<2974, 2975>>, <<2979, 2980>>, <<2984, 2986>>, <<2990, 3001>>,
     <<3024, 3024>>, <<3077, 3084>>, <<3086, 3088>>, <<3090, 3112>>, <<3114, 3129>>,
     <<3133, 3133>>, <<3160, 3162>>, <<3165, 3165>>, <<3168, 3169>>, <<3200, 3200>>,
     <<3205, 3212>>, <<3214, 3216>>, <<3218, 3240>>, <<3242, 3251>>, <<3253, 3257>>,
     <<3261, 3261>>, <<3293, 3294>>, <<3296, 3297>>, <<3313, 3314>>, <<3332, 3340>>,
     <<3342, 3344>>, <<3346, 3386>>, <<3389, 3389>>, <<3406, 3406>>, <<3412, 3414>>,
     <<3423, 3425>>, <<3450, 3455>>, <<3461, 3478>>, <<3482, 3505>>, <<3507, 3515>>,
     <<3517, 3517>>, <<3520, 3526>>, <<3585, 3632>>, <<3634, 3635>>, <<3648, 3654>>,
     <<3713, 3714>>, <<3716, 3716>>, <<3718, 3722>>, <<3724, 3747>>, <<3749, 3749>>,
     <<3751, 3760>>, <<3762, 3763>>, <<3773, 3773>>, <<3776, 3780>>, <<3782, 3782>>,
     <<3804, 3807>>, <<3840, 3840>>, <<3904, 3911>>, <<3913, 3948>>, <<3976, 3980>>,
     <<4096, 4138>>, <<4159, 4159>>, <<4176, 4181>>, <<4186, 4189>>, <<4193, 4193>>,
     <<4197, 4198>>, <<4206, 4208>>, <<4213, 4225>>, <<4238, 4238>>, <<4256, 4293>>,
     <<4295, 4295>>, <<4301, 4301>>, <<4304, 4346>>, <<4348, 4680>>, <<4682, 4685>>,
     <<4688, 4694>>, <<4696, 4696>>, <<4698, 4701>>, <<4704, 4744>>, <<4746, 4749>>,
     <<4752, 4784>>, <<4786, 4789>>, <<4792, 4798>>, <<4800, 4800>>, <<4802, 4805>>,
     <<4808, 4822>>, <<4824, 4880>>, <<4882, 4885>>, <<4888, 4954>>, <<4992, 5007>>,
     <<5024, 5109>>, <<5112, 5117>>, <<5121, 5740>>, <<5743, 5759>>, <<5761, 5786>>,
     <<5792, 5866>>, <<5873, 5880>>, <<5888, 5905>>, <<5919, 5937>>, <<5952, 5969>>,
     <<5984, 5996>>, <<5998, 6000>>, <<6016, 6067>>, <<6103, 6103>>, <<6108, 6108>>,
     <<6176, 6264>>, <<6272, 6276>>, <<6279, 6312>>, <<6314, 6314>>, <<6320, 6389>>,
     <<6400, 6430>>, <<6480, 6509>>, <<6512, 6516>>, <<6528, 6571>>, <<6576, 6601>>,
     <<6656, 6678>>, <<6688, 6740>>, <<6823, 6823>>, <<6917, 6963>>, <<6981, 6988>>,
     <<7043, 7072>>, <<7086, 7087>>, <<7098, 7141>>, <<7168, 7203>>, <<7245, 7247>>,
     <<7258, 7293>>, <<7296, 7304>>, <<7312, 7354>>, <<7357, 7359>>, <<7401, 7404>>,
     <<7406, 7411>>, <<7413, 7414>>, <<7418, 7418>>, <<7424, 7615>>, <<7680, 7957>>,
     <<7960, 7965>>, <<7968, 8005>>, <<8008, 8013>>, <<8016, 8023>>, <<8025, 8025>>,
     <<8027, 8027>>, <<8029, 8029>>, <<8031, 8061>>, <<8064, 8116>>, <<8118, 8124>>,
     <<8126, 8126>>, <<8130, 8132>>, <<8134, 8140>>, <<8144, 8147>>, <<8150, 8155>>,
     <<8160, 8172>>, <<8178, 8180>>, <<8182, 8188>>, <<8305, 8305>>, <<8319, 8319>>,
     <<8336, 8348>>, <<8450, 8450>>, <<8455, 8455>>, <<8458, 8467>>, <<8469, 8469>>,
     <<8473, 8477>>, <<8484, 8484>>, <<8486, 8486>>, <<8488, 8488>>, <<8490, 8493>>,
     <<8495, 8505>>, <<8508, 8511>>, <<8517, 8521>>, <<8526, 8526>>, <<8579, 8580>>,
     <<11264, 11492>>, <<11499, 11502>>, <<11506, 11507>>, <<11520, 11557>>, <<11559, 11559>>,
     <<11565, 11565>>, <<11568, 11623>>, <<11631, 11631>>, <<11648, 11670>>, <<11680, 11686>>,
     <<11688, 11694>>, <<11696, 11702>>, <<11704, 11710>>, <<11712, 11718>>, <<11720, 11726>>,
     <<11728, 11734>>, <<11736, 11742>>, <<11823, 11823>>, <<12293, 12294>>, <<12337, 12341>>,
     <<12347, 12348>>, <<12353, 12438>>, <<12445, 12447>>, <<12449, 12538>>, <<12540, 12543>>,
     <<12549, 12591>>, <<12593, 12686>>, <<12704, 12735>>, <<12784, 12799>>, <<13312, 19903>>,
     <<19968, 42124>>, <<42192, 42237>>, <<42240, 42508>>, <<42512, 42527>>, <<42538, 42539>>,
     <<42560, 42606>>, <<42623, 42653>>, <<42656, 42725>>, <<42775, 42783>>, <<42786, 42888>>,
     <<42891, 42954>>, <<42960, 42961>>, <<42963, 42963>>, <<42965, 42969>>, <<42994, 43009>>,
     <<43011, 43013>>, <<43015, 43018>>, <<43020, 43042>>, <<43072, 43123>>, <<43138, 43187>>,
     <<43250, 43255>>, <<43259, 43259>>, <<43261, 43262>>, <<43274, 43301>>, <<43312, 43334>>,
     <<43360, 43388>>, <<43396, 43442>>, <<43471, 43471>>, <<43488, 43492>>, <<43494, 43503>>,
     <<43514, 43518>>, <<43520, 43560>>, <<43584, 43586>>, <<43588, 43595>>, <<43616, 43638>>,
     <<43642, 43642>>, <<43646, 43695>>, <<43697, 43697>>, <<43701, 43702>>, <<43705, 43709>>,
     <<43712, 43712>>, <<43714, 43714>>, <<43739, 43741>>, <<43744, 43754>>, <<43762, 43764>>,
     <<43777, 43782>>, <<43785, 43790>>, <<43793, 43798>>, <<43808, 43814>>, <<43816, 43822>>,
     <<43824, 43866>>, <<43868, 43881>>, <<43888, 44002>>, <<44032, 55203>>, <<55216, 55238>>,
     <<55243, 55291>>, <<63744, 64109>>, <<64112, 64217>>, <<64256, 64262>>, <<64275, 64279>>,
     <<64285, 64285>>, <<64287, 64296>>, <<64298, 64310>>, <<64312, 64316>>, <<64318, 64318>>,
     <<64320, 64321>>, <<64323, 64324>>, <<64326, 64433>>, <<64467, 64829>>, <<64848, 64911>>,
     <<64914, 64967>>, <<65008, 65019>>, <<65136, 65140>>, <<65142, 65276>>, <<65313, 65338>>,
     <<65345, 65370>>, <<65382, 65470>>, <<65474, 65479>>, <<65482, 65487>>, <<65490, 65495>>,
     <<65498, 65500>>, <<65536, 65547>>, <<65549, 65574>>, <<65576, 65594>>, <<65596, 65597>>,
     <<65599, 65613>>, <<65616, 65629>>, <<65664, 65786>>, <<66176, 66204>>, <<66208, 66256>>,
     <<66304, 66335>>, <<66349, 66368>>, <<66370, 66377>>, <<66384, 66421>>, <<66432, 66461>>,
     <<66464, 66499>>, <<66504, 66511>>, <<66560, 66717>>, <<66736, 66771>>, <<66776, 66811>>,
     <<66816, 66855>>, <<66864, 66915>>, <<66928, 66938>>, <<66940, 66954>>, <<66956, 66962>>,
     <<66964, 66965>>, <<66967, 66977>>, <<66979, 66993>>, <<66995, 67001>>, <<67003, 67004>>,
     <<67072, 67382>>, <<67392, 67413>>, <<67424, 67431>>, <<67456, 67461>>, <<67463, 67504>>,
     <<67506, 67514>>, <<67584, 67589>>, <<67592, 67592>>, <<67594, 67637>>, <<67639, 67640>>,
     <<67644, 67644>>, <<67647, 67669>>, <<67680, 67702>>, <<67712, 67742>>, <<67808, 67826>>,
     <<67828, 67829>>, <<67840, 67861>>, <<67872, 67897>>, <<67968, 68023>>, <<68030, 68031>>,
     <<68096, 68096>>, <<68112, 68115>>, <<68117, 68119>>, <<68121, 68149>>, <<68192, 68220>>,
     <<68224, 68252>>, <<68288, 68295>>, <<68297, 68324>>, <<68352, 68405>>, <<68416, 68437>>,
     <<68448, 68466>>, <<68480, 68497>>, <<68608, 68680>>, <<68736, 68786>>, <<68800, 68850>>,
     <<68864, 68899>>, <<69248, 69289>>, <<69296, 69297>>, <<69376, 69404>>, <<69415, 69415>>,
     <<69424, 69445>>, <<69488, 69505>>, <<69552, 69572>>, <<69600, 69622>>, <<69635, 69687>>,
     <<69745, 69746>>, <<69749, 69749>>, <<69763, 69807>>, <<69840, 69864>>, <<69891, 69926>>,
     <<69956, 69956>>, <<69959, 69959>>, <<69968, 70002>>, <<70006, 70006>>, <<70019, 70066>>,
     <<70081, 70084>>, <<70106, 70106>>, <<70108, 70108>>, <<70144, 70161>>, <<70163, 70187>>,
     <<70272, 70278>>, <<70280, 70280>>, <<70282, 70285>>, <<70287, 70301>>, <<70303, 70312>>,
     <<70320, 70366>>, <<70405, 70412>>, <<70415, 70416>>, <<70419, 70440>>, <<70442, 70448>>,
     <<70450, 70451>>, <<70453, 70457>>, <<70461, 70461>>, <<70480, 70480>>, <<70493, 70497>>,
     <<70656, 70708>>, <<70727, 70730>>, <<70751, 70753>>, <<70784, 70831>>, <<70852, 70853>>,
     <<70855, 70855>>, <<71040, 71086>>, <<71128, 71131>>, <<71168, 71215>>, <<71236, 71236>>,
     <<71296, 71338>>, <<71352, 71352>>, <<71424, 71450>>, <<71488, 71494>>, <<71680, 71723>>,
     <<71840, 71903>>, <<71935, 71942>>, <<71945, 71945>>, <<71948, 71955>>, <<71957, 71958>>,
     <<71960, 71983>>, <<71999, 71999>>, <<72001, 72001>>, <<72096, 72103>>, <<72106, 72144>>,
     <<72161, 72161>>, <<72163, 72163>>, <<72192, 72192>>, <<72203, 72242>>, <<72250, 72250>>,
     <<72272, 72272>>, <<72284, 72329>>, <<72349, 72349>>, <<72368, 72440>>, <<72704, 72712>>,
     <<72714, 72750>>, <<72768, 72768>>, <<72818, 72847>>, <<72960, 72966>>, <<72968, 72969>>,
     <<72971, 73008>>, <<73030, 73030>>, <<73056, 73061>>, <<73063, 73064>>, <<73066, 73097>>,
     <<73112, 73112>>, <<73440, 73458>>, <<73648, 73648>>, <<73728, 74649>>, <<74880, 75075>>,
     <<77712, 77808>>, <<77824, 78894>>, <<82944, 83526>>, <<92160, 92728>>, <<92736, 92766>>,
     <<92784, 92862>>, <<92880, 92909>>, <<92928, 92975>>, <<92992, 92995>>, <<93027, 93047>>,
     <<93053, 93071>>, <<93760, 93823>>, <<93952, 94026>>, <<94032, 94032>>, <<94099, 94111>>,
     <<94176, 94177>>, <<94179, 94179>>, <<94208, 100343>>, <<100352, 101589>>,
     <<101632, 101640>>, <<110576, 110579>>, <<110581, 110587>>, <<110589, 110590>>,
     <<110592, 110882>>, <<110928, 110930>>, <<110948, 110951>>, <<110960, 111355>>,
     <<113664, 113770>>, <<113776, 113788>>, <<113792, 113800>>, <<113808, 113817>>,
     <<119808, 119892>>, <<119894, 119964>>, <<119966, 119967>>, <<119970, 119970>>,
     <<119973, 119974>>, <<119977, 119980>>, <<119982, 119993>>, <<119995, 119995>>,
     <<119997, 120003>>, <<120005, 120069>>, <<120071, 120074>>, <<120077, 120084>>,
     <<120086, 120092>>, <<120094, 120121>>, <<120123, 120126>>, <<120128, 120132>>,
     <<120134, 120134>>, <<120138, 120144>>, <<120146, 120485>>, <<120488, 120512>>,
     <<120514, 120538>>, <<120540, 120570>>, <<120572, 120596>>, <<120598, 120628>>,
     <<120630, 120654>>, <<120656, 120686>>, <<120688, 120712>>, <<120714, 120744>>,
     <<120746, 120770>>, <<120772, 120779>>, <<122624, 122654>>, <<123136, 123180>>,
     <<123191, 123197>>, <<123214, 123214>>, <<123536, 123565>>, <<123584, 123627>>,
     <<124896, 124902>>, <<124904, 124907>>, <<124909, 124910>>, <<124912, 124926>>,
     <<124928, 125124>>, <<125184, 125251>>, <<125259, 125259>>, <<126464, 126467>>,
     <<126469, 126495>>, <<126497, 126498>>, <<126500, 126500>>, <<126503, 126503>>,
     <<126505, 126514>>, <<126516, 126519>>, <<126521, 126521>>, <<126523, 126523>>,
     <<126530, 126530>>, <<126535, 126535>>, <<126537, 126537>>, <<126539, 126539>>,
     <<126541, 126543>>, <<126545, 126546>>, <<126548, 126548>>, <<126551, 126551>>,
     <<126553, 126553>>, <<126555, 126555>>, <<126557, 126557>>, <<126559, 126559>>,
     <<126561, 126562>>, <<126564, 126564>>, <<126567, 126570>>, <<126572, 126578>>,
     <<126580, 126583>>, <<126585, 126588>>, <<126590, 126590>>, <<126592, 126601>>,
     <<126603, 126619>>, <<126625, 126627>>, <<126629, 126633>>, <<126635, 126651>>,
     <<131072, 173791>>, <<173824, 177976>>, <<177984, 178205>>, <<178208, 183969>>,
     <<183984, 191456>>, <<194560, 195101>>, <<196608, 201546>>}

\* c.isnumeric(), which holds wherever c.isdecimal() or c.isdigit() does
NumericRanges ==
    {<<48, 57>>, <<178, 179>>, <<185, 185>>, <<188, 190>>, <<1632, 1641>>, <<1776, 1785>>,
     <<1984, 1993>>, <<2406, 2415>>, <<2534, 2543>>, <<2548, 2553>>, <<2662, 2671>>,
     <<2790, 2799>>, <<2918, 2927>>, <<2930, 2935>>, <<3046, 3058>>, <<3174, 3183>>,
     <<3192, 3198>>, <<3302, 3311>>, <<3416, 3422>>, <<3430, 3448>>, <<3558, 3567>>,
     <<3664, 3673>>, <<3792, 3801>>, <<3872, 3891>>, <<4160, 4169>>, <<4240, 4249>>,
     <<4969, 4988>>, <<5870, 5872>>, <<6112, 6121>>, <<6128, 6137>>, <<6160, 6169>>,
     <<6470, 6479>>, <<6608, 6618>>, <<6784, 6793>>, <<6800, 6809>>, <<6992, 7001>>,
     <<7088, 7097>>, <<7232, 7241>>, <<7248, 7257>>, <<8304, 8304>>, <<8308, 8313>>,
     <<8320, 8329>>, <<8528, 8578>>, <<8581, 8585>>, <<9312, 9371>>, <<9450, 9471>>,
     <<10102, 10131>>, <<11517, 11517>>, <<12295, 12295>>, <<12321, 12329>>, <<12344, 12346>>,
     <<12690, 12693>>, <<12832, 12841>>, <<12872, 12879>>, <<12881, 12895>>, <<12928, 12937>>,
     <<12977, 12991>>, <<13317, 13317>>, <<13443, 13443>>, <<14378, 14378>>, <<15181, 15181>>,
     <<19968, 19968>>, <<19971, 19971>>, <<19975, 19975>>, <<19977, 19977>>, <<20061, 20061>>,
     <<20108, 20108>>, <<20116, 20116>>, <<20118, 20118>>, <<20159, 20160>>, <<20191, 20191>>,
     <<20200, 20200>>, <<20237, 20237>>, <<20336, 20336>>, <<20740, 20740>>, <<20806, 20806>>,
     <<20841, 20841>>, <<20843, 20843>>, <<20845, 20845>>, <<21313, 21313>>, <<21315, 21317>>,
     <<21324, 21324>>, <<21441, 21444>>, <<22235, 22235>>, <<22769, 22769>>, <<22777, 22777>>,
     <<24186, 24186>>, <<24318, 24319>>, <<24332, 24334>>, <<24336, 24336>>, <<25342, 25342>>,
     <<25420, 25420>>, <<26578, 26578>>, <<28422, 28422>>, <<29590, 29590>>, <<30334, 30334>>,
     <<32902, 32902>>, <<33836, 33836>>, <<36014, 36014>>, <<36019, 36019>>, <<36144, 36144>>,
     <<38433, 38433>>, <<38470, 38470>>, <<38476, 38476>>, <<38520, 38520>>, <<38646, 38646>>,
     <<42528, 42537>>, <<42726, 42735>>, <<43056, 43061>>, <<43216, 43225>>, <<43264, 43273>>,
     <<43472, 43481>>, <<43504, 43513>>, <<43600, 43609>>, <<44016, 44025>>, <<63851, 63851>>,
     <<63859, 63859>>, <<63864, 63864>>, <<63922, 63922>>, <<63953, 63953>>, <<63955, 63955>>,
     <<63997, 63997>>, <<65296, 65305>>, <<65799, 65843>>, <<65856, 65912>>, <<65930, 65931>>,
     <<66273, 66299>>, <<66336, 66339>>, <<66369, 66369>>, <<66378, 66378>>, <<66513, 66517>>,
     <<66720, 66729>>, <<67672, 67679>>, <<67705, 67711>>, <<67751, 67759>>, <<67835, 67839>>,
     <<67862, 67867>>, <<68028, 68029>>, <<68032, 68047>>, <<68050, 68095>>, <<68160, 68168>>,
     <<68221, 68222>>, <<68253, 68255>>, <<68331, 68335>>, <<68440, 68447>>, <<68472, 68479>>,
     <<68521, 68527>>, <<68858, 68863>>, <<68912, 68921>>, <<69216, 69246>>, <<69405, 69414>>,
     <<69457, 69460>>, <<69573, 69579>>, <<69714, 69743>>, <<69872, 69881>>, <<69942, 69951>>,
     <<70096, 70105>>, <<70113, 70132>>, <<70384, 70393>>, <<70736, 70745>>, <<70864, 70873>>,
     <<71248, 71257>>, <<71360, 71369>>, <<71472, 71483>>, <<71904, 71922>>, <<72016, 72025>>,
     <<72784, 72812>>, <<73040, 73049>>, <<73120, 73129>>, <<73664, 73684>>, <<74752, 74862>>,
     <<92768, 92777>>, <<92864, 92873>>, <<93008, 93017>>, <<93019, 93025>>, <<93824, 93846>>,
     <<119520, 119539>>, <<119648, 119672>>, <<120782, 120831>>, <<123200, 123209>>,
     <<123632, 123641>>, <<125127, 125135>>, <<125264, 125273>>, <<126065, 126123>>,
     <<126125, 126127>>, <<126129, 126132>>, <<126209, 126253>>, <<126255, 126269>>,
     <<127232, 127244>>, <<130032, 130041>>, <<131073, 131073>>, <<131172, 131172>>,
     <<131298, 131298>>, <<131361, 131361>>, <<133418, 133418>>, <<133507, 133507>>,
     <<133516, 133516>>, <<133532, 133532>>, <<133866, 133866>>, <<133885, 133885>>,
     <<133913, 133913>>, <<140176, 140176>>, <<141720, 141720>>, <<146203, 146203>>,
     <<156269, 156269>>, <<194704, 194704>>}

\* The code points of a table
CodePoints(rs) == UNION {r[1]..r[2] : r \in rs}

Alphabetic == CodePoints(AlphaRanges)

Numeric == CodePoints(NumericRanges)

isalpha(c) == c \in Alphabetic

isnumeric(c) == c \in Numeric

\* c.isalnum(): c.isalpha() or c.isdecimal() or c.isdigit() or c.isnumeric()
isalnum(c) == isalpha(c) \/ isnumeric(c)

\* The characters str.strip() removes: every c with c.isspace()
Whitespace ==
    {9, 10, 11, 12, 13, 28, 29, 30, 31, 32, 133, 160, 5760, 8192, 8193, 8194, 8195, 8196, 8197,
     8198, 8199, 8200, 8201, 8202, 8232, 8233, 8239, 8287, 12288}

Min(S) == CHOOSE x \in S : \A y \in S : x <= y

Max(S) == CHOOSE x \in S : \A y \in S : y <= x

\* str.strip(): from the first to the last character that is not whitespace
strip(s) ==
    LET kept == {i \in DOMAIN s : s[i] \notin Whitespace}
    IN  IF kept = {} THEN <<>> ELSE SubSeq(s, Min(kept), Max(kept))

\* c * n
Repeat(c, n) == [i \in 1..n |-> c]

\* "".join(chunks), by halves
RECURSIVE Concat(_)
Concat(chunks) ==
    IF chunks = <<>> THEN <<>>
    ELSE IF Len(chunks) = 1 THEN chunks[1]
    ELSE LET h == Len(chunks) \div 2
         IN  Concat(SubSeq(chunks, 1, h)) \o Concat(SubSeq(chunks, h + 1, Len(chunks)))

\* str(n) of a natural number
RECURSIVE Decimal(_)
Decimal(n) == IF n < 10 THEN <<48 + n>> ELSE Append(Decimal(n \div 10), 48 + (n % 10))

HexDigit(d) == IF d < 10 THEN 48 + d ELSE 87 + d

\* "%04x" % c
Hex4(c) ==
    <<HexDigit(c \div 4096), HexDigit((c \div 256) % 16), HexDigit((c \div 16) % 16),
      HexDigit(c % 16)>>

(***************************************************************************)
(* Encoding.  The files are opened in text mode with UTF-8 (given in the   *)
(* example script, the interpreter's default in the others); file names    *)
(* go through the filesystem encoding, UTF-8 with surrogateescape.         *)
(***************************************************************************)
\* U+D800..U+DFFF, which UTF-8 does not encode
Surrogates == 55296..57343

\* U+DC80..U+DCFF, which surrogateescape turns into the bytes 0x80..0xFF
EscapedBytes == 56448..56575

\* The UTF-8 bytes of one code point
utf8(c) ==
    IF c < 128 THEN <<c>>
    ELSE IF c < 2048 THEN <<192 + (c \div 64), 128 + (c % 64)>>
    ELSE IF c < 65536
         THEN <<224 + (c \div 4096), 128 + ((c \div 64) % 64), 128 + (c % 64)>>
    ELSE <<240 + (c \div 262144), 128 + ((c \div 4096) % 64), 128 + ((c \div 64) % 64),
           128 + (c % 64)>>

\* Whether s.encode("utf-8") succeeds
Encodable(s) == \A i \in DOMAIN s : s[i] \notin Surrogates

\* Whether s.isascii(): such a str is its own encoding
isascii(s) == \A i \in DOMAIN s : s[i] < 128

\* s.encode("utf-8")
encode(s) == IF isascii(s) THEN s ELSE Concat([i \in DOMAIN s |-> utf8(s[i])])

\* Whether os.fsencode(s) succeeds
FsEncodable(s) == \A i \in DOMAIN s : s[i] \in Surrogates => s[i] \in EscapedBytes

\* os.fsencode(s)
fsencode(s) ==
    IF isascii(s) THEN s
    ELSE Concat([i \in DOMAIN s |->
                    IF s[i] \in EscapedBytes THEN <<s[i] - 56320>> ELSE utf8(s[i])])

(***************************************************************************)
(* Paths.  A pathlib path is its root ("/" or "//") with its components,   *)
(* each a str.  A directory or file of the filesystem is the sequence of   *)
(* its components from the root, each a sequence of bytes; the root        *)
(* directory is <<>>.                                                      *)
(***************************************************************************)
\* ord("/")
SLASH == 47

\* "app"
APP == <<97, 112, 112>>

\* "definitions"
DEFINITIONS == <<100, 101, 102, 105, 110, 105, 116, 105, 111, 110, 115>>

\* Path("/app/definitions")
OUT_DIR == [root |-> "/", parts |-> <<APP, DEFINITIONS>>]

\* "."
DOT == <<46>>

\* ".."
DOTDOT == <<46, 46>>

\* ".txt"
TXT == <<46, 116, 120, 116>>

Parent(p) == IF p = <<>> THEN <<>> ELSE SubSeq(p, 1, Len(p) - 1)

\* The components of a path string: the maximal runs without "/", in order,
\* the "." ones dropped (pathlib's normalisation; ".." is kept).
SplitPath(s) ==
    LET starts == {i \in DOMAIN s : s[i] /= SLASH /\ (i = 1 \/ s[i - 1] = SLASH)}
        ends == {i \in DOMAIN s : s[i] /= SLASH /\ (i = Len(s) \/ s[i + 1] = SLASH)}
        nth(S, n) == CHOOSE i \in S : Cardinality({j \in S : j < i}) = n - 1
        runs == [n \in 1..Cardinality(starts) |-> SubSeq(s, nth(starts, n), nth(ends, n))]
    IN  SelectSeq(runs, LAMBDA c : c /= DOT)

\* The root of an absolute path string: exactly two leading slashes are kept
PathRoot(name) ==
    IF /\ Len(name) >= 2
       /\ name[2] = SLASH
       /\ (Len(name) = 2 \/ name[3] /= SLASH)
    THEN "//"
    ELSE "/"

\* out_dir / name: an absolute right operand replaces the left one
PathJoin(base, name) ==
    IF name /= <<>> /\ Head(name) = SLASH
    THEN [root |-> PathRoot(name), parts |-> SplitPath(name)]
    ELSE [root |-> base.root, parts |-> base.parts \o SplitPath(name)]

\* file_path.name
PathName(p) == IF p.parts = <<>> THEN <<>> ELSE p.parts[Len(p.parts)]

\* "/".join(parts)
JoinParts(parts) ==
    Concat([i \in 1..(2 * Len(parts) - 1) |->
                IF i % 2 = 1 THEN parts[(i + 1) \div 2] ELSE <<SLASH>>])

\* str(file_path)
PathStr(p) == (IF p.root = "//" THEN <<SLASH, SLASH>> ELSE <<SLASH>>) \o JoinParts(p.parts)

\* The components handed to the operating system
FsPath(p) == [i \in DOMAIN p.parts |-> fsencode(p.parts[i])]

\* Longest file name and longest path (with its terminator) the system takes
NAME_MAX == 255

PATH_MAX == 4096

\* The operating system's lookup of an absolute path, component by component:
\* a component is looked up in an existing directory (ENOTDIR in a regular
\* file, ENOENT in nothing) and is at most NAME_MAX bytes; ".." steps to the
\* parent.  The last component need not exist.
RECURSIVE Walk(_, _, _, _)
Walk(cur, parts, ds, fs) ==
    IF parts = <<>> THEN [errno |-> "", path |-> cur]
    ELSE IF cur \in DOMAIN fs THEN [errno |-> "ENOTDIR", path |-> cur]
    ELSE IF cur \notin ds THEN [errno |-> "ENOENT", path |-> cur]
    ELSE IF Len(Head(parts)) > NAME_MAX THEN [errno |-> "ENAMETOOLONG", path |-> cur]
    ELSE IF Head(parts) = DOTDOT THEN Walk(Parent(cur), Tail(parts), ds, fs)
    ELSE Walk(Append(cur, Head(parts)), Tail(parts), ds, fs)

(***************************************************************************)
(* Exceptions                                                              *)
(***************************************************************************)
\* errno.errorcode
Errno(name) ==
    CASE name = "ENOENT" -> 2
      [] name = "EACCES" -> 13
      [] name = "EEXIST" -> 17
      [] name = "ENOTDIR" -> 20
      [] name = "EISDIR" -> 21
      [] name = "EFBIG" -> 27
      [] name = "ENOSPC" -> 28
      [] name = "EROFS" -> 30
      [] OTHER -> 36

\* os.strerror
StrError(name) ==
    CASE name = "ENOENT" ->
            \* "No such file or directory"
            <<78, 111, 32, 115, 117, 99, 104, 32, 102, 105, 108, 101, 32, 111, 114, 32, 100,
              105, 114, 101, 99, 116, 111, 114, 121>>
      [] name = "EACCES" ->
            \* "Permission denied"
            <<80, 101, 114, 109, 105, 115, 115, 105, 111, 110, 32, 100, 101, 110, 105, 101,
              100>>
      [] name = "EEXIST" ->
            \* "File exists"
            <<70, 105, 108, 101, 32, 101, 120, 105, 115, 116, 115>>
      [] name = "ENOTDIR" ->
            \* "Not a directory"
            <<78, 111, 116, 32, 97, 32, 100, 105, 114, 101, 99, 116, 111, 114, 121>>
      [] name = "EISDIR" ->
            \* "Is a directory"
            <<73, 115, 32, 97, 32, 100, 105, 114, 101, 99, 116, 111, 114, 121>>
      [] name = "EFBIG" ->
            \* "File too large"
            <<70, 105, 108, 101, 32, 116, 111, 111, 32, 108, 97, 114, 103, 101>>
      [] name = "ENOSPC" ->
            \* "No space left on device"
            <<78, 111, 32, 115, 112, 97, 99, 101, 32, 108, 101, 102, 116, 32, 111, 110, 32, 100,
              101, 118, 105, 99, 101>>
      [] name = "EROFS" ->
            \* "Read-only file system"
            <<82, 101, 97, 100, 45, 111, 110, 108, 121, 32, 102, 105, 108, 101, 32, 115, 121,
              115, 116, 101, 109>>
      [] OTHER ->
            \* "File name too long"
            <<70, 105, 108, 101, 32, 110, 97, 109, 101, 32, 116, 111, 111, 32, 108, 111, 110,
              103>>

\* The subclass of OSError the interpreter raises for an errno
ExcClass(name) ==
    CASE name = "ENOENT" -> "FileNotFoundError"
      [] name = "EACCES" -> "PermissionError"
      [] name = "EEXIST" -> "FileExistsError"
      [] name = "ENOTDIR" -> "NotADirectoryError"
      [] name = "EISDIR" -> "IsADirectoryError"
      [] OTHER -> "OSError"

NoExc == [class |-> "none", errno |-> "", filename |-> <<>>, object |-> <<>>]

\* OSError(errno, strerror, filename); filename <<>> when the call names none
OSErr(name, filename) ==
    [class |-> ExcClass(name), errno |-> name, filename |-> filename, object |-> <<>>]

\* UnicodeEncodeError for the str `object`
UnicodeErr(object) ==
    [class |-> "UnicodeEncodeError", errno |-> "", filename |-> <<>>, object |-> object]

\* ValueError("embedded null byte")
NullByteErr == [class |-> "ValueError", errno |-> "", filename |-> <<>>, object |-> <<>>]

\* Index from 0 of the first surrogate of s
FirstSurrogate(s) == Min({i \in DOMAIN s : s[i] \in Surrogates}) - 1

\* Index from 0 of the last of the surrogates that follow the first one without
\* a gap: the encoder reports the whole run it cannot encode
LastSurrogate(s) ==
    Max({j \in (FirstSurrogate(s) + 1)..Len(s) :
            \A k \in (FirstSurrogate(s) + 1)..j : s[k] \in Surrogates}) - 1

\* repr(filename) for a name made of "/", ".", alphanumerics, " ", "-", "_":
\* the names of the script that formats its exceptions
Quote(s) == <<39>> \o s \o <<39>>

\* str(e)
StrOf(e) ==
    CASE e.class = "ValueError" ->
            \* "embedded null byte"
            <<101, 109, 98, 101, 100, 100, 101, 100, 32, 110, 117, 108, 108, 32, 98, 121, 116,
              101>>
      [] e.class = "UnicodeEncodeError" ->
            \* "'utf-8' codec can't encode character"
            <<39, 117, 116, 102, 45, 56, 39, 32, 99, 111, 100, 101, 99, 32, 99, 97, 110, 39, 116, 32, 101, 110, 99, 111, 100, 101, 32, 99, 104, 97, 114, 97, 99, 116, 101, 114>>
            \o (IF LastSurrogate(e.object) = FirstSurrogate(e.object)
                THEN \* " '\ud"
                     <<32, 39, 92, 117, 100>>
                     \o SubSeq(Hex4(e.object[FirstSurrogate(e.object) + 1]), 2, 4)
                     \* "' in position "
                     \o <<39, 32, 105, 110, 32, 112, 111, 115, 105, 116, 105, 111, 110, 32>>
                     \o Decimal(FirstSurrogate(e.object))
                ELSE \* "s in position "
                     <<115, 32, 105, 110, 32, 112, 111, 115, 105, 116, 105, 111, 110, 32>>
                     \o Decimal(FirstSurrogate(e.object))
                     \* "-"
                     \o <<45>>
                     \o Decimal(LastSurrogate(e.object)))
            \* ": surrogates not allowed"
            \o <<58, 32, 115, 117, 114, 114, 111, 103, 97, 116, 101, 115, 32, 110, 111, 116, 32, 97, 108, 108, 111, 119, 101, 100>>
      [] OTHER ->
            \* "[Errno "
            <<91, 69, 114, 114, 110, 111, 32>>
            \o Decimal(Errno(e.errno))
            \* "] "
            \o <<93, 32>>
            \o StrError(e.errno)
            \o (IF e.filename = <<>> THEN <<>> ELSE <<58, 32>> \o Quote(e.filename))

(***************************************************************************)
(* Filesystem operations.  A fault is what the environment refuses during  *)
(* one call: the step, the errno, and for a write the size past which the  *)
(* file does not grow (full volume, file size limit).                      *)
(***************************************************************************)
NoFault == [step |-> "none", errno |-> "", limit |-> 0]

\* The faults explored: /app not writable, read-only volume, full volume
\* after 1 byte, file size limit of 17 bytes
Faults ==
    { NoFault,
      [step |-> "mkdir", errno |-> "EACCES", limit |-> 0],
      [step |-> "open", errno |-> "EROFS", limit |-> 0],
      [step |-> "write", errno |-> "ENOSPC", limit |-> 1],
      [step |-> "write", errno |-> "EFBIG", limit |-> 17] }

NoFile == <<-1>>

Content(fs, p) == IF p \in DOMAIN fs THEN fs[p] ELSE NoFile

PutFile(fs, p, data) == [q \in DOMAIN fs \cup {p} |-> IF q = p THEN data ELSE fs[q]]

\* out_dir.mkdir(exist_ok=True): an existing directory is accepted before
\* the system looks at whether it could create one
mkdir(ds, fs, fault) ==
    LET w == Walk(<<>>, FsPath(OUT_DIR), ds, fs)
        name == PathStr(OUT_DIR)
    IN  IF w.errno /= "" THEN [exc |-> OSErr(w.errno, name), dirs |-> ds]
        ELSE IF w.path \in ds THEN [exc |-> NoExc, dirs |-> ds]
        ELSE IF w.path \in DOMAIN fs THEN [exc |-> OSErr("EEXIST", name), dirs |-> ds]
        ELSE IF fault.step = "mkdir" THEN [exc |-> OSErr(fault.errno, name), dirs |-> ds]
        ELSE [exc |-> NoExc, dirs |-> ds \cup {w.path}]

\* What open(file_path, "w") leaves in an existing file
OpenModeAppend(old) == old

OpenModeW(old) == <<>>

\* open(file_path, "w"): the name is encoded and checked by the interpreter,
\* then the system looks the path up and creates or truncates the file
open(fs, ds, p, fault) ==
    LET name == PathStr(p)
        w == Walk(<<>>, FsPath(p), ds, fs)
        stay(e) == [exc |-> e, files |-> fs, path |-> <<>>]
    IN  IF ~FsEncodable(name) THEN stay(UnicodeErr(name))
        ELSE IF \E i \in DOMAIN name : name[i] = 0 THEN stay(NullByteErr)
        ELSE IF Len(fsencode(name)) >= PATH_MAX THEN stay(OSErr("ENAMETOOLONG", name))
        ELSE IF w.errno /= "" THEN stay(OSErr(w.errno, name))
        ELSE IF w.path \in ds THEN stay(OSErr("EISDIR", name))
        ELSE IF fault.step = "open" THEN stay(OSErr(fault.errno, name))
        ELSE [exc |-> NoExc, path |-> w.path,
              files |-> PutFile(fs, w.path,
                                IF w.path \in DOMAIN fs THEN OpenModeW(fs[w.path]) ELSE <<>>)]

\* The bytes the f.write calls put in the buffer: a chunk that cannot be
\* encoded raises and ends the block
RECURSIVE Buffered(_)
Buffered(chunks) ==
    IF chunks = <<>> \/ ~Encodable(Head(chunks)) THEN <<>>
    ELSE encode(Head(chunks)) \o Buffered(Tail(chunks))

\* The chunk at which f.write raised, <<>> if none did
RECURSIVE Rejected(_)
Rejected(chunks) ==
    IF chunks = <<>> THEN <<>>
    ELSE IF ~Encodable(Head(chunks)) THEN Head(chunks)
    ELSE Rejected(Tail(chunks))

\* The f.write calls and the close that leaves the with block.  What was
\* buffered reaches the file at the close, also when a write raised; when the
\* file cannot take it all, it keeps the bytes up to the limit and the close
\* raises.
write(fs, p, chunks, fault) ==
    LET buf == Buffered(chunks)
        bad == Rejected(chunks)
    IN  IF fault.step = "write" /\ fault.limit < Len(buf)
        THEN [exc |-> OSErr(fault.errno, <<>>),
              files |-> PutFile(fs, p, fs[p] \o SubSeq(buf, 1, fault.limit))]
        ELSE [exc |-> IF bad = <<>> THEN NoExc ELSE UnicodeErr(bad),
              files |-> PutFile(fs, p, fs[p] \o buf)]

(***************************************************************************)
(* The save tools                                                          *)
(***************************************************************************)
SaveVariants == {"v7mcp", "v7", "simple"}

\* c.isalnum() or c in (' ', '-', '_')
KeepChar(c) == isalnum(c) \/ c \in {32, 45, 95}

\* "".join(c for c in word if ...).strip()
safe_word(word) == strip(SelectSeq(word, KeepChar))

\* The name joined to out_dir, without its ".txt"
FileBase(v, word) == IF v = "v7mcp" THEN safe_word(word) ELSE word

\* The name joined to out_dir
FileName(v, word) == IF v = "simple" THEN word ELSE FileBase(v, word) \o TXT

\* file_path = out_dir / ...
file_path(v, word) == PathJoin(OUT_DIR, FileName(v, word))

HEADER ==
    \* "Definition of '"
    <<68, 101, 102, 105, 110, 105, 116, 105, 111, 110, 32, 111, 102, 32, 39>>

\* The chunks passed to f.write, in order: "':\n", "=" and "\n" are 39 58 10, 61 and 10
Writes(v, word, text) ==
    CASE v = "v7mcp" ->
            << HEADER \o word \o <<39, 58, 10>>,
               Repeat(61, Len(word) + 15) \o <<10, 10>>,
               strip(text) \o <<10>> >>
      [] v = "v7" -> << strip(text) \o <<10>> >>
      [] OTHER -> << text >>

ERROR_INDICATOR ==
    \* "\u274c Error saving definition for '"
    <<10060, 32, 69, 114, 114, 111, 114, 32, 115, 97, 118, 105, 110, 103, 32, 100, 101, 102,
      105, 110, 105, 116, 105, 111, 110, 32, 102, 111, 114, 32, 39>>

\* The string returned when every step succeeded
SavedMessage(v, word) ==
    CASE v = "v7mcp" ->
            \* "\u2705 The definition for '"
            <<9989, 32, 84, 104, 101, 32, 100, 101, 102, 105, 110, 105, 116, 105, 111, 110, 32,
              102, 111, 114, 32, 39>>
            \o word
            \* "' has been found and saved to "
            \o <<39, 32, 104, 97, 115, 32, 98, 101, 101, 110, 32, 102, 111, 117, 110, 100, 32,
                 97, 110, 100, 32, 115, 97, 118, 101, 100, 32, 116, 111, 32>>
            \o PathName(file_path(v, word))
            \* ". Mission Completed!"
            \o <<46, 32, 77, 105, 115, 115, 105, 111, 110, 32, 67, 111, 109, 112, 108, 101, 116,
                 101, 100, 33>>
      [] v = "v7" ->
            \* "The definition for '"
            <<84, 104, 101, 32, 100, 101, 102, 105, 110, 105, 116, 105, 111, 110, 32, 102, 111,
              114, 32, 39>>
            \o word
            \* "' has been found and saved. Mission Completed! Stop"
            \o <<39, 32, 104, 97, 115, 32, 98, 101, 101, 110, 32, 102, 111, 117, 110, 100, 32,
                 97, 110, 100, 32, 115, 97, 118, 101, 100, 46, 32, 77, 105, 115, 115, 105, 111,
                 110, 32, 67, 111, 109, 112, 108, 101, 116, 101, 100, 33, 32, 83, 116, 111,
                 112>>
      [] OTHER ->
            \* "Saved to "
            <<83, 97, 118, 101, 100, 32, 116, 111, 32>>
            \o PathStr(file_path(v, word))

\* The string returned by the except clause: ...word "': " str(e)
ErrorMessage(word, e) == ERROR_INDICATOR \o word \o <<39, 58, 32>> \o StrOf(e)

\* Whether the tool body runs inside try/except Exception
CatchesTool(v) == v = "v7mcp"

\* One call of save_definition / save_file: the filesystem afterwards and
\* what the caller gets (a returned string, or the exception raised).
SaveTool(v, word, text, fault, fs, ds) ==
    LET m == mkdir(ds, fs, fault)
        o == open(fs, m.dirs, file_path(v, word), fault)
        w == write(o.files, o.path, Writes(v, word, text), fault)
        opened == m.exc = NoExc /\ o.exc = NoExc
        e == IF m.exc /= NoExc THEN m.exc ELSE IF o.exc /= NoExc THEN o.exc ELSE w.exc
    IN  [files |-> IF opened THEN w.files ELSE fs,
         dirs |-> m.dirs,
         exc |-> e.class,
         raised |-> e /= NoExc /\ ~CatchesTool(v),
         ret |-> IF e = NoExc THEN SavedMessage(v, word)
                 ELSE IF CatchesTool(v) THEN ErrorMessage(word, e) ELSE <<>>,
         base |-> FileBase(v, word),
         target |-> IF opened THEN o.path ELSE <<>>,
         opened |-> opened]

NoCall == [word |-> <<>>, text |-> <<>>, fault |-> NoFault, exc |-> "none",
           raised |-> FALSE, ret |-> <<>>, base |-> <<>>, target |-> <<>>,
           opened |-> FALSE, before |-> NoFile]

CallRecord(word, text, fault, r, fs) ==
    [word |-> word, text |-> text, fault |-> fault, exc |-> r.exc,
     raised |-> r.raised, ret |-> r.ret, base |-> r.base, target |-> r.target,
     opened |-> r.opened,
     before |-> IF r.opened THEN Content(fs, r.target) ELSE NoFile]

(***************************************************************************)
(* Configuration read from the environment (the defaults of os.getenv)     *)
(***************************************************************************)
Variants == {"v7mcp", "v7", "simple", "v1"}

\* The scripts that call get_model() and use the MCP gateway
HasGateway(v) == v \in {"v7mcp", "v7"}

MODEL_RUNNER_URL == "http://model-runner.docker.internal/engines/llama.cpp/v1"

MODEL_RUNNER_MODEL(v) == IF v \in {"v7", "simple"} THEN "ai/qwen3" ELSE "ai/gemma3:1B-Q4_K_M"

OPENAI_MODEL_NAME == "gpt-4o-mini"

\* The values OPENAI_API_KEY is given in the runs explored
KeyStrings == {"", "sk-insecure", "sk-insecure-2", "sk-proj-abc"}

KeyInputs == {<<>>} \cup {<<k>> : k \in KeyStrings}

\* Python truth value of os.getenv(...): None and "" are false
Truthy(key) == key /= <<>> /\ key[1] /= ""

(***************************************************************************)
(* Model selection                                                         *)
(***************************************************************************)
NoParams == <<>>

NoModel == [client_args |-> <<>>, model_id |-> "", params |-> NoParams]

CloudParams(v) ==
    IF v = "v7mcp" THEN [temperature |-> "0.1", max_tokens |-> 1000] ELSE NoParams

LocalParams(v) ==
    CASE v = "v7mcp" -> [temperature |-> "0.1", max_tokens |-> 1000]
      [] v = "v7" -> [temperature |-> "0.0", max_tokens |-> 512]
      [] v = "simple" -> [temperature |-> "0.1", max_tokens |-> 200]
      [] OTHER -> [temperature |-> "0.1", max_tokens |-> 500]

CloudModel(v, key) ==
    [client_args |-> [api_key |-> key[1]],
     model_id |-> OPENAI_MODEL_NAME,
     params |-> CloudParams(v)]

LocalModel(v) ==
    [client_args |-> [api_key |-> "sk-insecure", base_url |-> MODEL_RUNNER_URL],
     model_id |-> MODEL_RUNNER_MODEL(v),
     params |-> LocalParams(v)]

\* A slip in the condition: the placeholder is not excluded
get_model_any_key(v, key) == IF Truthy(key) THEN CloudModel(v, key) ELSE LocalModel(v)

\* if OPENAI_API_KEY and OPENAI_API_KEY != "sk-insecure": ... else: ...
get_model(v, key) ==
    IF Truthy(key) /\ key[1] /= "sk-insecure" THEN CloudModel(v, key) ELSE LocalModel(v)

\* model = get_model() in the gateway scripts, the inline OpenAIModel(...) in the others
ResolvedModel(v, key) == IF HasGateway(v) THEN get_model(v, key) ELSE LocalModel(v)

(***************************************************************************)
(* Tools                                                                   *)
(***************************************************************************)
RemoteTools == {"search", "fetch"}

RECURSIVE SeqsUpTo(_, _)
SeqsUpTo(S, n) ==
    IF n = 0 THEN {<<>>}
    ELSE LET shorter == SeqsUpTo(S, n - 1)
         IN  shorter \cup {Append(q, x) : q \in shorter, x \in S}

\* The lists list_tools_sync() returns in the runs explored
ToolLists == SeqsUpTo(RemoteTools, MaxTools)

LocalTools(v) ==
    CASE v \in {"v7mcp", "v7"} -> <<"save_definition">>
      [] v = "simple" -> <<"simple_search", "save_file">>
      [] OTHER -> <<"current_time">>

\* A slip: the local tool replaces the discovered ones when there are any
all_tools_local_only(v, discovered) == LocalTools(v)

\* mcp_tools + [save_definition]; the scripts without a gateway pass their own list
all_tools(v, discovered) ==
    IF HasGateway(v) THEN discovered \o LocalTools(v) ELSE LocalTools(v)

NoAgent == [model |-> NoModel, tools |-> <<>>]

(***************************************************************************)
(* Control flow of main()                                                  *)
(***************************************************************************)
\* A slip: the script asks again after printing
Successor_retry(v, p) ==
    CASE p = "resolve" -> IF HasGateway(v) THEN "connect" ELSE "construct"
      [] p = "connect" -> "discover"
      [] p = "discover" -> "construct"
      [] p = "construct" -> "invoke"
      [] p = "invoke" -> "running"
      [] p = "running" -> "print"
      [] p = "print" -> "invoke"
      [] OTHER -> "done"

\* The statement that follows a statement that completed normally
Successor(v, p) ==
    CASE p = "resolve" -> IF HasGateway(v) THEN "connect" ELSE "construct"
      [] p = "connect" -> "discover"
      [] p = "discover" -> "construct"
      [] p = "construct" -> "invoke"
      [] p = "invoke" -> "running"
      [] p = "running" -> "print"
      [] p = "print" -> "leave"
      [] OTHER -> "done"

\* A slip: the client is started by hand and nothing stops it
WithExit_never(v, c) == c

\* with mcp_client: __exit__ runs when the block is left, normally or by an exception
WithExit(v, c) == IF HasGateway(v) /\ c = "open" THEN "closed" ELSE c

\* Whether an exception raised at `site` reaches an except clause of main()
Handles(v, site) ==
    \/ v = "v7mcp"
    \/ v = "v1" /\ site \in {"invoke", "tool"}

\* What the except clause prints
HandlerOutput(v) == IF v = "v7mcp" THEN <<"error", "tips">> ELSE <<"error">>

\* Whether the except clause ends with a bare raise
Reraises(v) == v = "v7mcp"

\* An exception leaves the statement at `site`
Raise(site) ==
    /\ error' = site
    /\ conn' = WithExit(variant, conn)
    /\ pc' = IF Handles(variant, site) THEN "except" ELSE "failed"
    /\ exit_status' = IF Handles(variant, site) THEN exit_status ELSE 1

\* The progress lines each script prints around a step
Progress(v, step) ==
    CASE step = "resolve" -> IF v = "v7mcp" THEN <<"banner", "configuring">> ELSE <<>>
      [] step = "connect" -> IF v = "v7mcp" THEN <<"connecting">> ELSE <<>>
      [] step = "connected" -> IF v = "v7mcp" THEN <<"established">> ELSE <<>>
      [] step = "construct" -> IF v = "v7mcp" THEN <<"creating">> ELSE <<>>
      [] step = "invoke" ->
            CASE v = "v7mcp" -> <<"processing", "working">>
              [] v = "v7" -> <<"processing">>
              [] v = "simple" -> <<"question">>
              [] OTHER -> <<"question", "processing">>
      [] OTHER -> <<>>

(***************************************************************************)
(* Inputs of the save tool                                                 *)
(***************************************************************************)
\* "C++/C#"
ExampleWord == <<67, 43, 43, 47, 67, 35>>

\* "C"
WordC == <<67>>

\* "e"
TextE == <<101>>

\* "\x0b \xe9\n": vertical tab, space, e-acute, newline
TextAccent == <<11, 32, 233, 10>>

\* "e\ud800": a lone surrogate, as a JSON escape gives
TextSurrogate == <<101, 55296>>

\* "e\ud83d\ud83de\udc00": two lone surrogates in a row, then another one
TextSurrogates == <<101, 55357, 55357, 101, 56320>>

\* The (word, definition) pairs the agent passes in a run of a script
AgentInputs == {<<WordC, TextE>>, <<ExampleWord, TextE>>}

\* The words passed in the sequences of direct tool calls: "", "C", "C++/C#",
\* "../C", "/C", "//C", " \xe9-_+\xb2\xbd ", "C.txt/x", "a\x00b", "\ud800"
SaveWords ==
    { <<>>, WordC, ExampleWord, <<46, 46, 47, 67>>, <<47, 67>>, <<47, 47, 67>>,
      <<32, 233, 45, 95, 43, 178, 189, 32>>,
      <<67, 46, 116, 120, 116, 47, 120>>, <<97, 0, 98>>, <<55296>> }

\* The (word, definition) pairs of those calls
SaveInputs ==
    {<<w, TextE>> : w \in SaveWords}
    \cup {<<WordC, TextAccent>>, <<WordC, TextSurrogate>>, <<WordC, TextSurrogates>>}

(***************************************************************************)
(* Initial states                                                          *)
(***************************************************************************)
\* The container's filesystem: / and the working directory /app exist
InitFilesystem ==
    /\ files = <<>>
    /\ dirs = {<<>>, <<APP>>}
    /\ calls = 0
    /\ last = NoCall

InitDriver ==
    /\ pc = "resolve"
    /\ model = NoModel
    /\ conn = "none"
    /\ mcp_tools = <<>>
    /\ agent = NoAgent
    /\ invocations = 0
    /\ discoveries = 0
    /\ out = <<>>
    /\ exit_status = -1
    /\ error = "none"

Init ==
    /\ variant \in Variants
    /\ OPENAI_API_KEY \in IF HasGateway(variant) THEN KeyInputs ELSE {<<>>}
    /\ InitDriver
    /\ InitFilesystem

(***************************************************************************)
(* The steps of main()                                                     *)
(***************************************************************************)
filesystemVars == <<files, dirs, calls, last>>

\* model = get_model()
ResolveModel ==
    /\ pc = "resolve"
    /\ model' = ResolvedModel(variant, OPENAI_API_KEY)
    /\ out' = out \o Progress(variant, "resolve")
    /\ pc' = Successor(variant, pc)
    /\ UNCHANGED <<variant, OPENAI_API_KEY, conn, mcp_tools, agent, invocations,
                   discoveries, exit_status, error>>
    /\ UNCHANGED filesystemVars

\* with mcp_client: the connection is established
Connect ==
    /\ pc = "connect"
    /\ conn' = "open"
    /\ out' = out \o Progress(variant, "connect") \o Progress(variant, "connected")
    /\ pc' = Successor(variant, pc)
    /\ UNCHANGED <<variant, OPENAI_API_KEY, model, mcp_tools, agent, invocations,
                   discoveries, exit_status, error>>
    /\ UNCHANGED filesystemVars

\* with mcp_client: the gateway cannot be reached
ConnectFails ==
    /\ pc = "connect"
    /\ out' = out \o Progress(variant, "connect")
    /\ Raise("connect")
    /\ UNCHANGED <<variant, OPENAI_API_KEY, model, mcp_tools, agent, invocations,
                   discoveries>>
    /\ UNCHANGED filesystemVars

\* mcp_tools = mcp_client.list_tools_sync()
Discover ==
    /\ pc = "discover"
    /\ \E ts \in ToolLists : mcp_tools' = ts
    /\ discoveries' = discoveries + 1
    /\ pc' = Successor(variant, pc)
    /\ UNCHANGED <<variant, OPENAI_API_KEY, model, conn, agent, invocations, out,
                   exit_status, error>>
    /\ UNCHANGED filesystemVars

\* list_tools_sync() raises
DiscoverFails ==
    /\ pc = "discover"
    /\ discoveries' = discoveries + 1
    /\ Raise("discover")
    /\ UNCHANGED <<variant, OPENAI_API_KEY, model, mcp_tools, agent, invocations, out>>
    /\ UNCHANGED filesystemVars

\* agent = Agent(model=model, tools=..., system_prompt=...)
Construct ==
    /\ pc = "construct"
    /\ agent' = [model |-> model, tools |-> all_tools(variant, mcp_tools)]
    /\ out' = out \o Progress(variant, "construct")
    /\ pc' = Successor(variant, pc)
    /\ UNCHANGED <<variant, OPENAI_API_KEY, model, conn, mcp_tools, invocations,
                   discoveries, exit_status, error>>
    /\ UNCHANGED filesystemVars

\* Agent(...) raises
ConstructFails ==
    /\ pc = "construct"
    /\ out' = out \o Progress(variant, "construct")
    /\ Raise("construct")
    /\ UNCHANGED <<variant, OPENAI_API_KEY, model, mcp_tools, agent, invocations,
                   discoveries>>
    /\ UNCHANGED filesystemVars

\* response = agent(QUESTION): the call is made
Invoke ==
    /\ pc = "invoke"
    /\ invocations' = invocations + 1
    /\ out' = out \o Progress(variant, "invoke")
    /\ pc' = Successor(variant, pc)
    /\ UNCHANGED <<variant, OPENAI_API_KEY, model, conn, mcp_tools, agent, discoveries,
                   exit_status, error>>
    /\ UNCHANGED filesystemVars

\* One call of the save tool with the filesystem it acts on
CallSave(inputs) ==
    \E i \in inputs, f \in Faults :
        LET r == SaveTool(variant, i[1], i[2], f, files, dirs)
        IN  /\ files' = r.files
            /\ dirs' = r.dirs
            /\ last' = CallRecord(i[1], i[2], f, r, files)

HasSaveTool(tools) == \E i \in DOMAIN tools : tools[i] \in {"save_definition", "save_file"}

\* While it runs, the agent calls the save tool; the framework hands the agent
\* loop whatever the tool returned, or the failure of a tool that raised.  The
\* loop goes on for as long as the model asks for the tool: nothing in the
\* scripts limits the number of calls, and `calls` counts them up to MaxCalls
AgentCallsSave ==
    /\ pc = "running"
    /\ HasSaveTool(agent.tools)
    /\ CallSave(AgentInputs)
    /\ calls' = Min({calls + 1, MaxCalls})
    /\ UNCHANGED <<variant>>
    /\ UNCHANGED driverVars

\* The exception of a save tool that raised leaves agent(QUESTION)
AgentToolRaises ==
    /\ pc = "running"
    /\ HasSaveTool(agent.tools)
    /\ Raise("tool")
    /\ CallSave(AgentInputs)
    /\ calls' = Min({calls + 1, MaxCalls})
    /\ last'.raised
    /\ UNCHANGED <<variant, OPENAI_API_KEY, model, mcp_tools, agent, invocations,
                   discoveries, out>>

\* agent(QUESTION) returns the response
AgentReturns ==
    /\ pc = "running"
    /\ pc' = Successor(variant, pc)
    /\ UNCHANGED <<variant, OPENAI_API_KEY, model, conn, mcp_tools, agent, invocations,
                   discoveries, out, exit_status, error>>
    /\ UNCHANGED filesystemVars

\* agent(QUESTION) raises: the model endpoint or the transport failed
AgentFails ==
    /\ pc = "running"
    /\ Raise("invoke")
    /\ UNCHANGED <<variant, OPENAI_API_KEY, model, mcp_tools, agent, invocations,
                   discoveries, out>>
    /\ UNCHANGED filesystemVars

\* print(response)
PrintResponse ==
    /\ pc = "print"
    /\ out' = Append(out, "response")
    /\ pc' = Successor(variant, pc)
    /\ UNCHANGED <<variant, OPENAI_API_KEY, model, conn, mcp_tools, agent, invocations,
                   discoveries, exit_status, error>>
    /\ UNCHANGED filesystemVars

\* The with block is left, main() returns and the process exits
Leave ==
    /\ pc = "leave"
    /\ conn' = WithExit(variant, conn)
    /\ pc' = Successor(variant, pc)
    /\ exit_status' = 0
    /\ UNCHANGED <<variant, OPENAI_API_KEY, model, mcp_tools, agent, invocations,
                   discoveries, out, error>>
    /\ UNCHANGED filesystemVars

\* except Exception as e: the prints of the handler
HandleException ==
    /\ pc = "except"
    /\ out' = out \o HandlerOutput(variant)
    /\ pc' = IF Reraises(variant) THEN "reraise" ELSE "done"
    /\ exit_status' = IF Reraises(variant) THEN exit_status ELSE 0
    /\ UNCHANGED <<variant, OPENAI_API_KEY, model, conn, mcp_tools, agent, invocations,
                   discoveries, error>>
    /\ UNCHANGED filesystemVars

\* raise: the exception leaves main() and ends the process
Reraise ==
    /\ pc = "reraise"
    /\ pc' = "failed"
    /\ exit_status' = 1
    /\ UNCHANGED <<variant, OPENAI_API_KEY, model, conn, mcp_tools, agent, invocations,
                   discoveries, out, error>>
    /\ UNCHANGED filesystemVars

Next ==
    \/ ResolveModel
    \/ Connect
    \/ ConnectFails
    \/ Discover
    \/ DiscoverFails
    \/ Construct
    \/ ConstructFails
    \/ Invoke
    \/ AgentReturns
    \/ AgentFails
    \/ AgentCallsSave
    \/ AgentToolRaises
    \/ PrintResponse
    \/ Leave
    \/ HandleException
    \/ Reraise

Spec == Init /\ [][Next]_vars

\* The statements of main() that the interpreter runs by itself: once control is
\* at one of them it runs
Statement ==
    \/ ResolveModel
    \/ Construct
    \/ ConstructFails
    \/ Invoke
    \/ PrintResponse
    \/ Leave
    \/ HandleException
    \/ Reraise

\* The calls main() is blocked in until something outside the script answers:
\* the start of the gateway client, list_tools_sync() and agent(QUESTION).
\* Each one ends by returning or by raising
ExternalCallEnds ==
    \/ Connect
    \/ ConnectFails
    \/ Discover
    \/ DiscoverFails
    \/ AgentReturns
    \/ AgentFails
    \/ AgentToolRaises

\* The runs in which the single thread of main() is never left waiting: the
\* interpreter runs the statement it is at, and no external call hangs.  The
\* scripts set no timeout and no limit on the agent loop, so the second
\* condition is an assumption about the gateway, the model endpoint and the
\* model, not something the code enforces
FairSpec == Init /\ [][Next]_vars /\ WF_vars(Statement) /\ WF_vars(ExternalCallEnds)

(***************************************************************************)
(* The save tool called directly, any sequence of calls                    *)
(***************************************************************************)
SaveInit ==
    /\ variant \in SaveVariants
    /\ OPENAI_API_KEY = <<>>
    /\ InitDriver
    /\ InitFilesystem

SaveCall ==
    /\ calls < MaxCalls
    /\ CallSave(SaveInputs)
    /\ calls' = calls + 1
    /\ UNCHANGED <<variant>>
    /\ UNCHANGED driverVars

SaveNext == SaveCall

SaveSpec == SaveInit /\ [][SaveNext]_vars

(***************************************************************************)
(* Properties                                                              *)
(***************************************************************************)
Range(q) == {q[i] : i \in DOMAIN q}

Terminal == {"done", "failed"}

StartsWith(s, prefix) == Len(s) >= Len(prefix) /\ SubSeq(s, 1, Len(prefix)) = prefix

\* The bytes a successful call leaves in its file
Payload(v, word, text) == encode(Concat(Writes(v, word, text)))

\* The credential is set, non-empty and not the placeholder
KeyIsReal ==
    /\ OPENAI_API_KEY /= <<>>
    /\ OPENAI_API_KEY[1] /= ""
    /\ OPENAI_API_KEY[1] /= "sk-insecure"

IsCloudConfig(m) ==
    /\ OPENAI_API_KEY /= <<>>
    /\ DOMAIN m.client_args = {"api_key"}
    /\ m.client_args.api_key = OPENAI_API_KEY[1]
    /\ m.model_id = OPENAI_MODEL_NAME

IsLocalConfig(m) ==
    /\ DOMAIN m.client_args = {"api_key", "base_url"}
    /\ m.client_args.api_key = "sk-insecure"
    /\ m.client_args.base_url = MODEL_RUNNER_URL
    /\ m.model_id = MODEL_RUNNER_MODEL(variant)

\* C1: in the scripts that select a model, once the model is resolved and for
\* the rest of the run (failures included), the configuration is the cloud one
\* exactly when the credential is set, non-empty and not "sk-insecure", and
\* the local one in every other case.
C1_BranchByCredential ==
    (HasGateway(variant) /\ pc /= "resolve") =>
        /\ IsCloudConfig(model) <=> KeyIsReal
        /\ IsLocalConfig(model) <=> ~KeyIsReal

C1_Witness ==
    /\ HasGateway(variant)
    /\ pc = "failed"
    /\ error = "invoke"
    /\ KeyIsReal
    /\ IsCloudConfig(model)

\* C2: a call of save_definition never raises: whatever the word, the text and
\* the filesystem failure, it returns a string, which carries the error
\* indicator when a step failed, and no run ends because of the tool.
C2_SaveNeverRaises ==
    (HasGateway(variant) /\ calls > 0) =>
        /\ ~last.raised
        /\ last.exc /= "none" => StartsWith(last.ret, ERROR_INDICATOR)
        /\ error /= "tool"

InScope == {"discover", "construct", "invoke", "running", "print", "leave"}

\* C3: the gateway connection is open only between its acquisition and the
\* end of the with block: never before tool discovery, and in no terminal
\* state, whether main() returned or an exception left the block.
C3_ConnectionReleased ==
    /\ conn = "open" => pc \in InScope
    /\ pc \in {"resolve", "connect"} => conn = "none"
    /\ (pc \in Terminal /\ discoveries > 0) => conn = "closed"

C3_Witness ==
    /\ pc = "failed"
    /\ error \in {"discover", "construct", "invoke"}
    /\ conn = "closed"

NonToolFailures == {"connect", "discover", "construct", "invoke"}

\* C4: a failure of the gateway connection, of tool discovery, of the agent's
\* construction or of the model call ends the run failed with a non-zero exit
\* status, never completed; the agent is not invoked again; the guidance, where
\* printed, comes before the re-raise.
C4_FailuresPropagate ==
    error \in NonToolFailures =>
        /\ pc /= "done"
        /\ pc \in Terminal => exit_status /= 0
        /\ invocations <= 1
        /\ "tips" \in Range(out) => pc \in {"reraise", "failed"}

\* The order the steps are claimed to occur in
StepOrder(v) ==
    IF HasGateway(v)
    THEN <<"resolve", "connect", "discover", "construct", "invoke", "running", "print",
           "leave", "done">>
    ELSE <<"resolve", "construct", "invoke", "running", "print", "leave", "done">>

FailurePcs == {"except", "reraise", "failed"}

InOrder(p, q) ==
    \E i \in 1..(Len(StepOrder(variant)) - 1) :
        StepOrder(variant)[i] = p /\ StepOrder(variant)[i + 1] = q

C5_Order ==
    /\ invocations <= 1
    /\ discoveries <= 1
    /\ pc = "done" => invocations = 1
    /\ (error = "none" /\ pc \in Terminal) =>
            /\ pc = "done"
            /\ out /= <<>>
            /\ out[Len(out)] = "response"
            /\ Cardinality({i \in DOMAIN out : out[i] = "response"}) = 1

C5_Step ==
    /\ (pc' /= pc /\ pc \notin FailurePcs /\ pc' \notin FailurePcs) => InOrder(pc, pc')
    /\ discoveries' /= discoveries => (conn = "open" /\ pc = "discover")
    /\ invocations' /= invocations => (agent /= NoAgent /\ pc = "invoke")

\* Tool discovery is called exactly once in every run of a gateway script
C5_DiscoveredOnce == (HasGateway(variant) /\ pc \in Terminal) => discoveries = 1

\* Tool discovery is called once in every run of a gateway script that acquired
\* the connection, and not at all in a run that did not
C5_DiscoveredOnceIfConnected ==
    /\ (HasGateway(variant) /\ pc \in Terminal) =>
            discoveries = IF error = "connect" THEN 0 ELSE 1
    /\ ~HasGateway(variant) => discoveries = 0

\* C5 as stated: a run goes through its steps in the one order resolve,
\* connect, discover, construct, invoke, print, exit; the agent is invoked at
\* most once and exactly once in a completed run; tool discovery is called
\* exactly once and only while the connection is open; a run in which no step
\* fails terminates having printed the response.
C5_AsStated ==
    /\ [](C5_Order /\ C5_DiscoveredOnce)
    /\ [][C5_Step]_vars
    /\ <>(error /= "none" \/ pc = "done")

\* C5, amended: the steps occur in that one order; the agent is invoked at most
\* once and exactly once in a completed run; tool discovery is called at most
\* once, only while the connection is open, exactly once in every run that
\* acquired the connection and never in a run whose connection failed; when no
\* external call hangs every run terminates, and a run in which no step failed
\* has then completed with the response printed once, as its last output.
C5_LinearSingleShot ==
    /\ [](C5_Order /\ C5_DiscoveredOnceIfConnected)
    /\ [][C5_Step]_vars
    /\ <>(pc \in Terminal)

\* A gateway run completed after the agent called the save tool
C5_Witness ==
    /\ HasGateway(variant)
    /\ pc = "done"
    /\ error = "none"
    /\ invocations = 1
    /\ discoveries = 1
    /\ calls > 0

\* C6: a save call in which every step succeeded leaves its target file with
\* exactly the payload of that call, creates no other file and changes no
\* other file.
C6_Overwrite ==
    [][(calls' = calls + 1 /\ last'.exc = "none") =>
          /\ last'.target \in DOMAIN files'
          /\ files'[last'.target] = Payload(variant, last'.word, last'.text)
          /\ DOMAIN files' = DOMAIN files \cup {last'.target}
          /\ \A q \in DOMAIN files \ {last'.target} : files'[q] = files[q]]_vars

\* A second call with the same word and another text has replaced the first
\* call's content
C6_Witness ==
    /\ calls = 2
    /\ last.exc = "none"
    /\ \E i \in SaveInputs :
          /\ i[1] = last.word
          /\ strip(i[2]) /= strip(last.text)
          /\ last.before = Payload(variant, last.word, i[2])
    /\ files[last.target] = Payload(variant, last.word, last.text)
    /\ Cardinality(DOMAIN files) = 1

\* The sanitisation the claim describes
C7_Sanitized(w) == strip(SelectSeq(w, LAMBDA c : isalnum(c) \/ c \in {32, 45, 95}))

\* C7: the filename base save_definition uses is the word with every
\* character outside alphanumeric, space, hyphen and underscore removed and
\* the result stripped, and sanitising that base again returns it unchanged.
C7_FilenameSanitized ==
    (HasGateway(variant) /\ calls > 0) =>
        /\ last.base = C7_Sanitized(last.word)
        /\ C7_Sanitized(last.base) = last.base

\* C8: the agent's tool list is the discovered list, whole and in the order
\* the gateway returned it, followed by save_definition.
C8_ToolsAppended ==
    (HasGateway(variant) /\ agent /= NoAgent) =>
        /\ agent.tools = mcp_tools \o <<"save_definition">>
        /\ Len(agent.tools) = Len(mcp_tools) + 1
        /\ \A i \in DOMAIN mcp_tools : agent.tools[i] = mcp_tools[i]

C8_Witness ==
    /\ HasGateway(variant)
    /\ agent /= NoAgent
    /\ Len(mcp_tools) = 2
    /\ mcp_tools[1] /= mcp_tools[2]
    /\ agent.tools = <<mcp_tools[1], mcp_tools[2], "save_definition">>

FullySpecified(m) ==
    /\ "api_key" \in DOMAIN m.client_args
    /\ m.model_id /= ""
    /\ {"temperature", "max_tokens"} \subseteq DOMAIN m.params

\* C9: the configuration get_model returns carries a credential, a model
\* identifier and both sampling parameters on either branch, and the sampling
\* parameters of the cloud branch are those of the local branch.
C9_FullySpecified ==
    (HasGateway(variant) /\ pc /= "resolve") =>
        /\ FullySpecified(model)
        /\ model.params = LocalModel(variant).params

\* C10: every file a save tool has created lies directly inside
\* /app/definitions.
C10_InsideOutDir == \A p \in DOMAIN files : Parent(p) = FsPath(OUT_DIR)

====
